---------------------------- MODULE Spec2Model ----------------------------
(***************************************************************************)
(* State-machine model of the stock dashboard's forecasting subsystem:     *)
(*   utils/arima_forecaster.py  (class ARIMAForecaster)                    *)
(*   utils/lstm_forecaster.py   (class LSTMForecaster)                     *)
(*   utils/data_fetcher.py      (get_stock_data)                           *)
(*   app.py                     (the dashboard run)                        *)
(*                                                                         *)
(* Numbers.  Prices are small integers.  A float array is a sequence whose *)
(* elements are <<x>> (the finite number x) or <<>> (NaN).  A value in the *)
(* scaler's [0,1] space is the exact fraction [num, den].  An accuracy is  *)
(* the exact fraction [num, den] of a percentage.                          *)
(*                                                                         *)
(* Library calls whose outcome the repository does not decide (the ARIMA   *)
(* optimiser, network training, prediction) take their outcome from an     *)
(* `env` record chosen nondeterministically for every call.                *)
(***************************************************************************)
EXTENDS Integers, Sequences, FiniteSets, TLC

\* ------------------------------------------------------------------ bounds
MaxLen == 3
MaxTimeSteps == 2
MaxForecastSteps == 2
MaxFutureSteps == 2
MaxErr == 2

\* The price series the callers pass: every prefix, up to MaxLen values, of
\*   "flat"  2, 2, 2, ...   a constant price,
\*   "ramp"  1, 2, 3, ...   a monotonically increasing price,
\*   "dip"   2, 0, 2, ...   a price that touches zero.
Shapes == {"flat", "ramp", "dip"}

PriceAt(shape, i) ==
  CASE shape = "flat" -> 2
    [] shape = "ramp" -> i
    [] OTHER -> IF i % 2 = 1 THEN 2 ELSE 0

Series == {[i \in 1..n |-> PriceAt(sh, i)] : sh \in Shapes, n \in 0..MaxLen}

\* --------------------------------------------------------- generic helpers
None == <<>>
Some(x) == <<x>>
Only(opt) == opt[1]

NaN == <<>>
F(x) == <<x>>
IsNaN(e) == e = NaN
Val(e) == e[1]

Min2(a, b) == IF a <= b THEN a ELSE b
Max2(a, b) == IF a >= b THEN a ELSE b
Abs(x) == IF x < 0 THEN 0 - x ELSE x

\* np.zeros(k); a negative k makes numpy raise ValueError, which the callers
\* test with k < 0 before using this.
zeros(k) == [i \in 1..k |-> F(0)]

\* Python s[-k:] for k >= 0; s[-0:] is s[0:], the whole sequence.
LastK(s, k) ==
  IF k = 0 \/ k >= Len(s) THEN s ELSE SubSeq(s, Len(s) - k + 1, Len(s))

\* Python s[:k] for k >= 0.
FirstK(s, k) == SubSeq(s, 1, Min2(k, Len(s)))

RECURSIVE SumTo(_, _)
SumTo(f, n) == IF n = 0 THEN 0 ELSE f[n] + SumTo(f, n - 1)

RECURSIVE ProdTo(_, _)
ProdTo(f, n) == IF n = 0 THEN 1 ELSE f[n] * ProdTo(f, n - 1)

\* ------------------------------------------------------- accuracy fractions
ZeroAcc == [num |-> 0, den |-> 1]

\* sklearn.metrics.mean_absolute_percentage_error(actual, forecast):
\*   mean(|a - f| / max(|a|, eps)).  It raises ValueError on arrays of
\*   different length, on empty arrays and on NaN.  With a zero actual and a
\*   different forecast the term is |f| / eps, larger than any percentage
\*   ("huge"); 0 / eps is 0.
mean_absolute_percentage_error(actual, forecast) ==
  LET k == Len(actual)
      d == [i \in 1..k |-> IF actual[i] = 0 THEN 1 ELSE Abs(actual[i])]
      P == ProdTo(d, k)
      t == [i \in 1..k |-> (Abs(actual[i] - Val(forecast[i])) * P) \div d[i]]
  IN IF k # Len(forecast) \/ k = 0 \/ \E i \in 1..Len(forecast) : IsNaN(forecast[i])
       THEN [raises |-> TRUE, huge |-> FALSE, num |-> 0, den |-> 1]
       ELSE [raises |-> FALSE,
             huge   |-> \E i \in 1..k : actual[i] = 0 /\ Val(forecast[i]) # 0,
             num    |-> SumTo(t, k),
             den    |-> k * P]

\* accuracy = 100 - (mape * 100); return max(0, accuracy)
\* Variant that subtracts the error ratio itself, not the percentage.
AccuracyOf_ratio(mape) ==
  IF mape.huge THEN ZeroAcc
  ELSE [num |-> Max2(0, 100 * mape.den - mape.num), den |-> mape.den]

\* Variant without the max(0, .) clip.
AccuracyOf_unclipped(mape) ==
  [num |-> 100 * mape.den - 100 * mape.num, den |-> mape.den]

AccuracyOf(mape) ==
  IF mape.huge THEN ZeroAcc
  ELSE [num |-> Max2(0, 100 * mape.den - 100 * mape.num), den |-> mape.den]

\* ===================================================== ARIMAForecaster
DefaultOrder == <<5, 1, 0>>
AccuracyTail == 30

\* ARIMAForecaster.__init__
ARIMA_init(order, forecast_steps) ==
  [order |-> order, forecast_steps |-> forecast_steps,
   model |-> None, model_fit |-> None]

\* Outcomes of the statsmodels calls of one ARIMAForecaster call:
\*   fit "ctor_raises": ARIMA(data, order) raises (it rejects an empty series);
\*   fit "fit_raises":  self.model.fit() raises;
\*   fit "ok":          the fitted parameters are phi, finite or not;
\*   forecast_raises:   model_fit.forecast(steps) raises.
ArimaEnvs(data) ==
  IF Len(data) = 0
    THEN {[fit |-> "ctor_raises", phi |-> 0, finite |-> TRUE, forecast_raises |-> FALSE]}
    ELSE
  {[fit |-> "fit_raises", phi |-> 0, finite |-> TRUE,  forecast_raises |-> FALSE],
   [fit |-> "ok",         phi |-> 0, finite |-> TRUE,  forecast_raises |-> FALSE],
   [fit |-> "ok",         phi |-> 1, finite |-> TRUE,  forecast_raises |-> FALSE],
   [fit |-> "ok",         phi |-> 0, finite |-> FALSE, forecast_raises |-> FALSE],
   [fit |-> "ok",         phi |-> 0, finite |-> TRUE,  forecast_raises |-> TRUE]}

\* ARIMAForecaster.fit: the instance afterwards and the returned bool.
ARIMA_fit(self, data, env) ==
  CASE env.fit = "ctor_raises" -> [self |-> self, ok |-> FALSE]
    [] env.fit = "fit_raises" ->
         [self |-> [self EXCEPT !.model = Some(data)], ok |-> FALSE]
    [] OTHER ->
         [self |-> [self EXCEPT
                      !.model = Some(data),
                      !.model_fit = Some([endog |-> data, phi |-> env.phi,
                                          finite |-> env.finite])],
          ok |-> TRUE]

\* model_fit.forecast(steps): the fitted model's recursive point forecasts,
\* here those of a differenced model with one coefficient phi on the last
\* observed difference; NaN throughout when the parameters are not finite.
ModelForecast(fit, steps) ==
  LET n    == Len(fit.endog)
      last == fit.endog[n]
      diff == IF n >= 2 THEN fit.endog[n] - fit.endog[n - 1] ELSE 0
  IN [h \in 1..steps |->
        IF fit.finite THEN F(last + h * fit.phi * diff) ELSE NaN]

\* The two slices ARIMAForecaster._calculate_accuracy compares: data[-30:]
\* and forecast[:len(actual_values)] (both branches of the length test take
\* the same slice).
ARIMA_accuracy_slices(data, forecast) ==
  LET actual_values == LastK(data, AccuracyTail)
  IN [actual_values   |-> actual_values,
      forecast_subset |-> FirstK(forecast, Len(actual_values))]

\* ARIMAForecaster._calculate_accuracy
ARIMA_calculate_accuracy(data, forecast) ==
  LET sl   == ARIMA_accuracy_slices(data, forecast)
      mape == mean_absolute_percentage_error(sl.actual_values, sl.forecast_subset)
  IN IF mape.raises THEN ZeroAcc ELSE AccuracyOf(mape)

\* The fallback array of ARIMAForecaster.forecast's except branch.
\* Variant: the fallback sized by the default horizon, not the configured one.
ARIMA_fallback_default(self) == zeros(30)

ARIMA_fallback(self) == zeros(self.forecast_steps)

\* Whether forecast's try body raises before it returns: the fit failed, or
\* there is no fitted model to forecast from, or its forecast raises.
\* Variant: forecast ignores the bool fit returned.
ARIMA_forecast_fails_unchecked(f, env) ==
  f.self.model_fit = None \/ env.forecast_raises

ARIMA_forecast_fails(f, env) ==
  ~f.ok \/ f.self.model_fit = None \/ env.forecast_raises

\* ARIMAForecaster.forecast: the instance afterwards and the returned pair,
\* or raised = TRUE when the call raises to its caller (np.zeros raises
\* ValueError on a negative length, inside the except branch).
ARIMA_forecast(self, data, env) ==
  LET f == ARIMA_fit(self, data, env) IN
  IF ARIMA_forecast_fails(f, env)
    THEN IF self.forecast_steps < 0
           THEN [self |-> f.self, fit_ok |-> f.ok, raised |-> TRUE,
                 values |-> <<>>, accuracy |-> ZeroAcc]
           ELSE [self |-> f.self, fit_ok |-> f.ok, raised |-> FALSE,
                 values |-> ARIMA_fallback(self), accuracy |-> ZeroAcc]
    ELSE LET forecast == ModelForecast(Only(f.self.model_fit), self.forecast_steps)
         IN [self |-> f.self, fit_ok |-> f.ok, raised |-> FALSE,
             values |-> forecast,
             accuracy |-> ARIMA_calculate_accuracy(data, forecast)]

\* z_score = 1.96, in hundredths.
z_score == 196

\* pandas Series.std() (ddof = 1): NaN for fewer than two values, else the
\* root of  (n * sum(x^2) - sum(x)^2) / (n * (n - 1)),  kept as that square.
SeriesStd(data) ==
  LET n  == Len(data)
      sq == [i \in 1..n |-> data[i] * data[i]]
  IN IF n < 2 THEN NaN
     ELSE F([sq_num |-> n * SumTo(sq, n) - SumTo(data, n) * SumTo(data, n),
             sq_den |-> n * (n - 1)])

\* forecast_result + sign * (z_score * std_dev), element by element: the
\* value  centre + z/100 * std  kept as its three parts; NaN when the centre
\* or the deviation is NaN.
Band(forecast_result, sign, std_dev) ==
  [i \in 1..Len(forecast_result) |->
     IF IsNaN(forecast_result[i]) \/ IsNaN(std_dev) THEN NaN
     ELSE F([centre |-> Val(forecast_result[i]), z |-> sign * z_score,
             std |-> Val(std_dev)])]

\* ARIMAForecaster.get_forecast_confidence: the instance afterwards and the
\* returned pair of arrays (confidence_level is not read).
ARIMA_get_forecast_confidence(self, data, env) ==
  LET f == ARIMA_fit(self, data, env) IN
  IF ~f.ok \/ f.self.model_fit = None \/ env.forecast_raises
    THEN IF self.forecast_steps < 0
           THEN [self |-> f.self, fit_ok |-> f.ok, raised |-> TRUE,
                 lower |-> <<>>, upper |-> <<>>]
           ELSE [self |-> f.self, fit_ok |-> f.ok, raised |-> FALSE,
                 lower |-> zeros(self.forecast_steps),
                 upper |-> zeros(self.forecast_steps)]
    ELSE LET forecast_result == ModelForecast(Only(f.self.model_fit),
                                              self.forecast_steps)
             std_dev == SeriesStd(data)
         IN [self |-> f.self, fit_ok |-> f.ok, raised |-> FALSE,
             lower |-> Band(forecast_result, -1, std_dev),
             upper |-> Band(forecast_result, 1, std_dev)]

NotFitted == "Model not fitted yet"

\* ARIMAForecaster.get_model_summary
ARIMA_get_model_summary(self) ==
  IF self.model_fit # None
    THEN [text |-> "summary", of |-> Only(self.model_fit).endog]
    ELSE [text |-> NotFitted, of |-> <<>>]


\* ======================================================= LSTMForecaster
\* LSTMForecaster.__init__: a fresh, unfitted MinMaxScaler and no model.
LSTM_init(time_steps) ==
  [time_steps |-> time_steps, units |-> 50, epochs |-> 10, batch_size |-> 32,
   scaler |-> None, model |-> None]

\* MinMaxScaler: data_range 0 is handled as scale 1.
Range(sc) == IF sc.data_max = sc.data_min THEN 1 ELSE sc.data_max - sc.data_min

SeqMin(s) == CHOOSE x \in {s[i] : i \in 1..Len(s)} : \A j \in 1..Len(s) : x <= s[j]
SeqMax(s) == CHOOSE x \in {s[i] : i \in 1..Len(s)} : \A j \in 1..Len(s) : x >= s[j]

\* MinMaxScaler.transform with fitted state sc.
Transform(sc, data) ==
  [i \in 1..Len(data) |-> F([num |-> data[i] - sc.data_min, den |-> Range(sc)])]

\* MinMaxScaler.inverse_transform with fitted state sc: x * range + data_min.
\* NaN passes through.  The division is exact whenever the value's unit is the
\* scaler's own range.
InverseTransform(sc, arr) ==
  [i \in 1..Len(arr) |->
     IF IsNaN(arr[i]) THEN NaN
     ELSE F((Val(arr[i]).num * Range(sc)) \div Val(arr[i]).den + sc.data_min)]

\* MinMaxScaler.fit_transform: fit() first resets the scaler, then validates
\* the input (an empty array raises ValueError and leaves it unfitted).
\* Variant: the range is fitted on the series without its last value.
FitTransform_prefix(data) ==
  IF Len(data) = 0
    THEN [raises |-> TRUE, scaler |-> None, scaled |-> <<>>]
    ELSE LET head == IF Len(data) = 1 THEN data ELSE SubSeq(data, 1, Len(data) - 1)
             sc == [data_min |-> SeqMin(head), data_max |-> SeqMax(head)]
         IN [raises |-> FALSE, scaler |-> Some(sc), scaled |-> Transform(sc, data)]

FitTransform(data) ==
  IF Len(data) = 0
    THEN [raises |-> TRUE, scaler |-> None, scaled |-> <<>>]
    ELSE LET sc == [data_min |-> SeqMin(data), data_max |-> SeqMax(data)]
         IN [raises |-> FALSE, scaler |-> Some(sc), scaled |-> Transform(sc, data)]

\* LSTMForecaster._create_lstm_dataset: one example per index in [w, n).
\* Variant: the loop stops one index early, range(w, n - 1).
LSTM_create_lstm_dataset_short(self, scaled) ==
  LET w == self.time_steps
      m == Max2(0, Len(scaled) - w - 1)
  IN [x_data |-> [j \in 1..m |-> SubSeq(scaled, j, j + w - 1)],
      y_data |-> [j \in 1..m |-> scaled[j + w]]]

\* Variant: the target is read at i - 1, the last value of its own window.
LSTM_create_lstm_dataset_lagged(self, scaled) ==
  LET w == self.time_steps
      m == Max2(0, Len(scaled) - w)
  IN [x_data |-> [j \in 1..m |-> SubSeq(scaled, j, j + w - 1)],
      y_data |-> [j \in 1..m |-> scaled[j + w - 1]]]

LSTM_create_lstm_dataset(self, scaled) ==
  LET w == self.time_steps
      m == Max2(0, Len(scaled) - w)
  IN [x_data |-> [j \in 1..m |-> SubSeq(scaled, j, j + w - 1)],
      y_data |-> [j \in 1..m |-> scaled[j + w]]]

\* Outcomes of the keras calls of one LSTMForecaster call:
\*   fit "train_raises": self.model.fit(...) raises;
\*   fit "ok":           the trained weights reproduce each training target
\*                       with error err (in units of the scaled values), or
\*                       are not finite;
\*   predict_raises:     self.model.predict(...) raises.
\* No keras call is made when no training example can be built.
LstmEnvs(self, data) ==
  IF Len(data) <= self.time_steps
    THEN {[fit |-> "none", err |-> 0, finite |-> TRUE, predict_raises |-> FALSE]}
    ELSE
  {[fit |-> "train_raises", err |-> 0, finite |-> TRUE,  predict_raises |-> FALSE],
   [fit |-> "ok",           err |-> 0, finite |-> TRUE,  predict_raises |-> FALSE],
   [fit |-> "ok",           err |-> 1, finite |-> TRUE,  predict_raises |-> FALSE],
   [fit |-> "ok",           err |-> 0, finite |-> FALSE, predict_raises |-> FALSE],
   [fit |-> "ok",           err |-> 0, finite |-> TRUE,  predict_raises |-> TRUE]}

\* _build_model: a network with fresh weights, not yet trained.
LSTM_build_model ==
  [trained |-> FALSE, x_data |-> <<>>, y_data |-> <<>>, err |-> 0, finite |-> TRUE]

\* LSTMForecaster.fit: the instance afterwards and the returned bool.
\*   line 89  scaler.fit_transform
\*   line 92  _create_lstm_dataset
\*   line 95  x_data.shape[1]: IndexError when no example was built
\*   line 99  self.model = self._build_model(...)
\*   line 100 self.model.fit(...)
\* Variant: a series too short for the window shrinks the instance's
\* time_steps to fit it.
LSTM_fit_adaptive(self, data, env) ==
  LET ft == FitTransform(data)
      w  == IF Len(data) <= self.time_steps /\ Len(data) >= 2
              THEN Len(data) - 1 ELSE self.time_steps
      s1 == [self EXCEPT !.scaler = ft.scaler, !.time_steps = w]
      ds == LSTM_create_lstm_dataset(s1, ft.scaled)
  IN IF ft.raises \/ Len(ds.x_data) = 0
       THEN [self |-> s1, ok |-> FALSE]
     ELSE IF env.fit \in {"train_raises", "none"}
       THEN [self |-> [s1 EXCEPT !.model = Some(LSTM_build_model)], ok |-> FALSE]
     ELSE [self |-> [s1 EXCEPT !.model =
                       Some([trained |-> TRUE, x_data |-> ds.x_data,
                             y_data |-> ds.y_data, err |-> env.err,
                             finite |-> env.finite])],
           ok |-> TRUE]

LSTM_fit(self, data, env) ==
  LET ft == FitTransform(data)
      s1 == [self EXCEPT !.scaler = ft.scaler]
      ds == LSTM_create_lstm_dataset(self, ft.scaled)
  IN IF ft.raises \/ Len(ds.x_data) = 0
       THEN [self |-> s1, ok |-> FALSE]
     ELSE IF env.fit = "train_raises"
       THEN [self |-> [s1 EXCEPT !.model = Some(LSTM_build_model)], ok |-> FALSE]
     ELSE [self |-> [s1 EXCEPT !.model =
                       Some([trained |-> TRUE, x_data |-> ds.x_data,
                             y_data |-> ds.y_data, err |-> env.err,
                             finite |-> env.finite])],
           ok |-> TRUE]

\* model.predict on one window: the target the network was trained to give
\* for that window (for a window it never saw, the window's last value), off
\* by the training error; NaN when the weights or the window are not finite.
Predict(net, x) ==
  LET seen == {j \in 1..Len(net.x_data) : net.x_data[j] = x}
      base == IF seen = {} THEN x[Len(x)]
              ELSE net.y_data[CHOOSE j \in seen : \A k \in seen : j <= k]
  IN IF ~net.finite \/ IsNaN(base) THEN NaN
     ELSE F([num |-> Val(base).num + net.err, den |-> Val(base).den])

\* LSTMForecaster._calculate_accuracy
\* Variant: the actual values are taken from the start, data[:len(predictions)].
LSTM_calculate_accuracy_head(data, predictions) ==
  LET actual_values == FirstK(data, Len(predictions))
      mape == mean_absolute_percentage_error(actual_values, predictions)
  IN IF mape.raises THEN ZeroAcc ELSE AccuracyOf(mape)

LSTM_calculate_accuracy(data, predictions) ==
  LET actual_values == LastK(data, Len(predictions))
      mape == mean_absolute_percentage_error(actual_values, predictions)
  IN IF mape.raises THEN ZeroAcc ELSE AccuracyOf(mape)

\* The length forecast's except branch passes to np.zeros.
LSTM_fallback_len(self, data) == Len(data) - self.time_steps

\* The except branch of LSTMForecaster.forecast: np.zeros raises ValueError
\* on a negative length, and nothing catches it.
LSTM_forecast_except(s, fit_ok, k) ==
  IF k < 0
    THEN [self |-> s, fit_ok |-> fit_ok, raised |-> TRUE,
          values |-> <<>>, accuracy |-> ZeroAcc]
    ELSE [self |-> s, fit_ok |-> fit_ok, raised |-> FALSE,
          values |-> zeros(k), accuracy |-> ZeroAcc]

\* LSTMForecaster.forecast: the instance afterwards and the returned pair,
\* or raised = TRUE when the call raises to its caller.
LSTM_forecast(self, data, env) ==
  LET f  == LSTM_fit(self, data, env)
      k  == LSTM_fallback_len(self, data)
  IN IF ~f.ok THEN LSTM_forecast_except(f.self, FALSE, k)
     ELSE
       LET ft == FitTransform(data)
           s2 == [f.self EXCEPT !.scaler = ft.scaler]
           ds == LSTM_create_lstm_dataset(s2, ft.scaled)
       IN IF ft.raises \/ Len(ds.x_data) = 0 \/ s2.model = None \/ env.predict_raises
            THEN LSTM_forecast_except(s2, TRUE, k)
          ELSE
            LET net   == Only(s2.model)
                preds == [j \in 1..Len(ds.x_data) |-> Predict(net, ds.x_data[j])]
                lstm_predictions == InverseTransform(Only(s2.scaler), preds)
            IN [self |-> s2, fit_ok |-> TRUE, raised |-> FALSE,
                values |-> lstm_predictions,
                accuracy |-> LSTM_calculate_accuracy(data, lstm_predictions)]

\* predict_future lines 197-198: the last time_steps values, scaled with the
\* fitted scaler.
LSTM_last_sequence_scaled(self, data) ==
  Transform(Only(self.scaler), LastK(data, self.time_steps))

\* The window update of predict_future (lines 214-215): np.roll(seq, -1)
\* moves the oldest value to the end, where the new prediction overwrites it.
\* Variant: np.roll(seq, 1), with the prediction still written to the end.
RollWindow_right(seq, next_pred) ==
  IF Len(seq) = 0 THEN seq
  ELSE Append(<<seq[Len(seq)]>> \o SubSeq(seq, 1, Len(seq) - 2), next_pred)

RollWindow(seq, next_pred) ==
  IF Len(seq) = 0 THEN seq ELSE Append(Tail(seq), next_pred)

\* The loop of predict_future: k more iterations from window `seq`, giving
\* the predictions in order.
RECURSIVE Rollout(_, _, _)
\* Variant: the loop runs range(future_steps - 1).
Rollout_one_less(net, seq, k) ==
  IF k <= 1 THEN <<>>
  ELSE LET next_pred == Predict(net, seq)
       IN <<next_pred>> \o Rollout(net, RollWindow(seq, next_pred), k - 1)

Rollout(net, seq, k) ==
  IF k = 0 THEN <<>>
  ELSE LET next_pred == Predict(net, seq)
       IN <<next_pred>> \o Rollout(net, RollWindow(seq, next_pred), k - 1)

\* The same loop, giving the x_input of each iteration (line 205) in order.
RECURSIVE RolloutInputs(_, _, _)
RolloutInputs(net, seq, k) ==
  IF k = 0 THEN <<>>
  ELSE <<seq>> \o RolloutInputs(net, RollWindow(seq, Predict(net, seq)), k - 1)

\* LSTMForecaster.predict_future: the instance afterwards and the returned
\* array.  inverse_transform raises ValueError on an empty array.
LSTM_predict_future(self, data, future_steps, env) ==
  LET f == LSTM_fit(self, data, env) IN
  IF ~f.ok \/ env.predict_raises \/ future_steps = 0
    THEN [self |-> f.self, fit_ok |-> f.ok, raised |-> FALSE,
          values |-> zeros(future_steps), accuracy |-> ZeroAcc]
    ELSE LET sc  == Only(f.self.scaler)
             last_sequence_scaled == LSTM_last_sequence_scaled(f.self, data)
             future == Rollout(Only(f.self.model), last_sequence_scaled, future_steps)
         IN [self |-> f.self, fit_ok |-> TRUE, raised |-> FALSE,
             values |-> InverseTransform(sc, future), accuracy |-> ZeroAcc]

\* LSTMForecaster.get_model_summary
LSTM_get_model_summary(self) ==
  IF self.model # None
    THEN [text |-> "LSTM Model Summary:", of |-> Only(self.model).y_data]
    ELSE [text |-> NotFitted, of |-> <<>>]

\* ============================================================ dashboard
\* The defaults of ARIMAForecaster() and LSTMForecaster() (30 and 60 in the
\* source), scaled to the modelled series lengths so that a fetched series
\* can be shorter than, equal to and longer than the window.
DefaultForecastSteps == MaxForecastSteps
DefaultTimeSteps == MaxTimeSteps

Columns == {{"Close", "Volume"}, {"Close"}, {"Volume"}}

\* What yf.download hands get_stock_data: it raises, or returns a table with
\* `rows` rows, a set of columns and (when it has one) the Close column.
Downloads ==
  {[raises |-> TRUE, rows |-> 0, columns |-> {}, close |-> <<>>]}
  \cup {[raises |-> FALSE, rows |-> Len(c), columns |-> cols, close |-> c] :
           c \in Series, cols \in {cs \in Columns : "Close" \in cs}}
  \cup {[raises |-> FALSE, rows |-> n, columns |-> {"Volume"}, close |-> <<>>] :
           n \in 0..MaxLen}

\* get_stock_data: None when the download raises or the table is empty.
get_stock_data(dl) ==
  IF dl.raises \/ dl.rows = 0 THEN None
  ELSE Some([rows |-> dl.rows, columns |-> dl.columns, close |-> dl.close])

\* app.py line 55: data is not None and 'Close' in data.columns
HasClose(data) == data # None /\ "Close" \in Only(data).columns

\* The lines of app.py after the fetch that evaluate data['Close'].
CloseReadLines == {85, 102, 108, 134, 140}

NoCrash == [line |-> 0, error |-> "none"]

MetricKeys ==
  {"Highest Price", "Lowest Price", "Best Time to Sell", "Best Time to Buy",
   "Average Price", "Total Return (%)", "Volatility (%)", "Average Volume",
   "Max Volume"}

\* The keys app.py reads from the metrics (lines 60-71).
DisplayedKeys ==
  {"Highest Price", "Lowest Price", "Average Price", "Best Time to Sell",
   "Best Time to Buy"}

\* The metrics computed from the Volume column (lines 51-52); the other
\* seven come from the Close column (lines 28-48).
VolumeKeys == {"Average Volume", "Max Volume"}

\* calculate_stock_metrics: the keys of the returned dictionary.  Any
\* exception (a missing column, idxmax on an empty table, or `computes` =
\* FALSE for one raised by the computation itself, such as strftime on an
\* index that holds no timestamps) gives the empty dictionary; the
\* dictionary is built in one piece after the last computation.
\* Variant: each metric is stored as soon as it is computed and the except
\* branch returns what was stored so far.
calculate_stock_metrics_incremental(table, computes) ==
  IF "Close" \in table.columns /\ table.rows >= 1 /\ computes
    THEN IF "Volume" \in table.columns THEN MetricKeys
         ELSE MetricKeys \ VolumeKeys
    ELSE {}

calculate_stock_metrics(table, computes) ==
  IF {"Close", "Volume"} \subseteq table.columns /\ table.rows >= 1 /\ computes
    THEN MetricKeys ELSE {}

\* The tables calculate_stock_metrics is called with directly, as
\* test_project.py does with a dummy frame: any columns, any row count.
MetricTables ==
  {[rows |-> dl.rows, columns |-> dl.columns, close |-> dl.close] :
     dl \in {x \in Downloads : ~x.raises}}

\* ================================================================ state
VARIABLES
  client,   \* who runs: "arima", "lstm", "dashboard", "metrics", ...
  arima,    \* the ARIMAForecaster instance
  lstm,     \* the LSTMForecaster instance
  ret,      \* the last forecaster call: its arguments, outcome and result
  pc,       \* position of the dashboard run in app.py
  data,     \* app.py's `data`: what get_stock_data returned
  metrics,  \* app.py's `metrics`: the keys of the returned dictionary
  crash,    \* the uncaught exception that ended the dashboard run
  calls     \* the forecast calls in progress on the LSTM instance, by thread

vars == <<client, arima, lstm, ret, pc, data, metrics, crash, calls>>

\* No call is in progress: every operation runs to its end in one step.
NoCalls == <<>>

NoEnv == [fit |-> "none"]
NoSummary == [text |-> "", of |-> <<>>]

\* No percentage error was computed (or its computation raised).
NoMape == [raises |-> TRUE, huge |-> FALSE, num |-> 0, den |-> 1]

NoRet ==
  [cls |-> "none", op |-> "none", data |-> <<>>, steps |-> 0, env |-> NoEnv,
   fit_ok |-> FALSE, raised |-> FALSE, values |-> <<>>, accuracy |-> ZeroAcc,
   upper |-> <<>>, mape |-> NoMape, summary |-> NoSummary]

\* The record of a call of `op` on a `cls` instance with result r.
Ret(cls, op, d, steps, env, r) ==
  [cls |-> cls, op |-> op, data |-> d, steps |-> steps, env |-> env,
   fit_ok |-> r.fit_ok, raised |-> r.raised, values |-> r.values,
   accuracy |-> r.accuracy, upper |-> <<>>, mape |-> NoMape,
   summary |-> NoSummary]

Init ==
  /\ client \in {"arima", "lstm", "dashboard", "metrics"}
  /\ \E fs \in {0, 1, MaxForecastSteps} :
       arima = ARIMA_init(DefaultOrder,
                          IF client = "arima" THEN fs ELSE DefaultForecastSteps)
  /\ \E w \in {1, MaxTimeSteps} :
       lstm = LSTM_init(IF client = "lstm" THEN w ELSE DefaultTimeSteps)
  /\ ret = NoRet
  /\ pc = "start"
  /\ data = None
  /\ metrics = {}
  /\ crash = NoCrash
  /\ calls = NoCalls

\* A call of fit alone makes no forecasting or prediction call, so only
\* the fitting outcomes apply to it.
FitEnvs(envs) ==
  {e \in envs : \A f \in DOMAIN e :
                  f \in {"forecast_raises", "predict_raises"} => ~e[f]}

\* ------------------------------------------------ ARIMAForecaster calls
ArimaFit(d, env) ==
  /\ client = "arima"
  /\ LET f == ARIMA_fit(arima, d, env) IN
       /\ arima' = f.self
       /\ ret' = Ret("arima", "fit", d, 0, env,
                     [fit_ok |-> f.ok, raised |-> FALSE, values |-> <<>>,
                      accuracy |-> ZeroAcc])
  /\ UNCHANGED <<calls, client, lstm, pc, data, metrics, crash>>

ArimaForecast(d, env) ==
  /\ client \in {"arima", "both"}
  /\ LET r == ARIMA_forecast(arima, d, env) IN
       /\ arima' = r.self
       /\ ret' = Ret("arima", "forecast", d, 0, env, r)
  /\ UNCHANGED <<calls, client, lstm, pc, data, metrics, crash>>

\* get_forecast_confidence(data): the record's values are the lower bounds.
ArimaConfidence(d, env) ==
  /\ client = "arima"
  /\ LET r == ARIMA_get_forecast_confidence(arima, d, env) IN
       /\ arima' = r.self
       /\ ret' = [NoRet EXCEPT !.cls = "arima", !.op = "get_forecast_confidence",
                               !.data = d, !.env = env, !.fit_ok = r.fit_ok,
                               !.raised = r.raised, !.values = r.lower,
                               !.upper = r.upper]
  /\ UNCHANGED <<calls, client, lstm, pc, data, metrics, crash>>

ArimaSummary ==
  /\ client = "arima"
  /\ ret' = [NoRet EXCEPT !.cls = "arima", !.op = "get_model_summary",
                          !.summary = ARIMA_get_model_summary(arima)]
  /\ UNCHANGED <<calls, client, arima, lstm, pc, data, metrics, crash>>

\* ------------------------------------------------- LSTMForecaster calls
LstmFit(d, env) ==
  /\ client = "lstm"
  /\ LET f == LSTM_fit(lstm, d, env) IN
       /\ lstm' = f.self
       /\ ret' = Ret("lstm", "fit", d, 0, env,
                     [fit_ok |-> f.ok, raised |-> FALSE, values |-> <<>>,
                      accuracy |-> ZeroAcc])
  /\ UNCHANGED <<calls, client, arima, pc, data, metrics, crash>>

\* Variant: the two classes keep their fitted state in one shared place, so
\* an LSTM forecast discards what the ARIMA instance holds.
LstmForecast_shared(d, env) ==
  /\ client \in {"lstm", "both"}
  /\ LET r == LSTM_forecast(lstm, d, env) IN
       /\ lstm' = r.self
       /\ ret' = Ret("lstm", "forecast", d, 0, env, r)
  /\ arima' = [arima EXCEPT !.model = None, !.model_fit = None]
  /\ UNCHANGED <<calls, client, pc, data, metrics, crash>>

LstmForecast(d, env) ==
  /\ client \in {"lstm", "both"}
  /\ LET r == LSTM_forecast(lstm, d, env) IN
       /\ lstm' = r.self
       /\ ret' = Ret("lstm", "forecast", d, 0, env, r)
  /\ UNCHANGED <<calls, client, arima, pc, data, metrics, crash>>

LstmPredictFuture(d, future_steps, env) ==
  /\ client = "lstm"
  /\ LET r == LSTM_predict_future(lstm, d, future_steps, env) IN
       /\ lstm' = r.self
       /\ ret' = Ret("lstm", "predict_future", d, future_steps, env, r)
  /\ UNCHANGED <<calls, client, arima, pc, data, metrics, crash>>

LstmSummary ==
  /\ client = "lstm"
  /\ ret' = [NoRet EXCEPT !.cls = "lstm", !.op = "get_model_summary",
                          !.summary = LSTM_get_model_summary(lstm)]
  /\ UNCHANGED <<calls, client, arima, lstm, pc, data, metrics, crash>>

\* ------------------------------------------- calculate_stock_metrics
\* A direct call, as in test_project.py lines 91-97.
CalcMetrics(table, computes) ==
  /\ client = "metrics"
  /\ data' = Some(table)
  /\ metrics' = calculate_stock_metrics(table, computes)
  /\ ret' = [NoRet EXCEPT !.cls = "metrics", !.op = "calculate_stock_metrics"]
  /\ UNCHANGED <<calls, client, arima, lstm, pc, crash>>

\* -------------------------------------------------- the dashboard run
\* app.py line 53
Fetch(dl) ==
  /\ client = "dashboard"
  /\ pc = "start"
  /\ data' = get_stock_data(dl)
  /\ pc' = "fetched"
  /\ UNCHANGED <<calls, client, arima, lstm, ret, metrics, crash>>

\* app.py lines 55-73: the guarded metrics block.
ShowMetrics(computes) ==
  /\ client = "dashboard"
  /\ pc = "fetched"
  /\ IF HasClose(data)
       THEN LET m == calculate_stock_metrics(Only(data), computes) IN
            /\ metrics' = m
            /\ IF DisplayedKeys \subseteq m
                 THEN pc' = "metrics_shown" /\ crash' = crash
                 ELSE pc' = "crashed" /\ crash' = [line |-> 60, error |-> "KeyError"]
       ELSE pc' = "metrics_shown" /\ UNCHANGED <<metrics, crash>>
  /\ UNCHANGED <<calls, client, arima, lstm, ret, data>>

\* app.py lines 75-90: st.write(data), then plt.plot(data['Close']).
PlotClose ==
  /\ client = "dashboard"
  /\ pc = "metrics_shown"
  /\ IF data = None
       THEN pc' = "crashed" /\ crash' = [line |-> 85, error |-> "TypeError"]
     ELSE IF "Close" \notin Only(data).columns
       THEN pc' = "crashed" /\ crash' = [line |-> 85, error |-> "KeyError"]
     ELSE pc' = "close_plotted" /\ crash' = crash
  /\ UNCHANGED <<calls, client, arima, lstm, ret, data, metrics>>

\* app.py lines 101-125: a new ARIMAForecaster forecasts data['Close'].
RunArima ==
  /\ client = "dashboard"
  /\ pc = "close_plotted"
  /\ \E env \in ArimaEnvs(Only(data).close) :
       LET d == Only(data).close
           r == ARIMA_forecast(ARIMA_init(DefaultOrder, DefaultForecastSteps), d, env)
       IN /\ arima' = r.self
          /\ ret' = Ret("arima", "forecast", d, 0, env, r)
  /\ pc' = "arima_shown"
  /\ UNCHANGED <<calls, client, lstm, data, metrics, crash>>

\* app.py lines 133-134: a new LSTMForecaster forecasts data['Close'].
RunLstm ==
  /\ client = "dashboard"
  /\ pc = "arima_shown"
  /\ \E env \in LstmEnvs(LSTM_init(DefaultTimeSteps), Only(data).close) :
       LET d == Only(data).close
           r == LSTM_forecast(LSTM_init(DefaultTimeSteps), d, env)
       IN /\ lstm' = r.self
          /\ ret' = Ret("lstm", "forecast", d, 0, env, r)
          /\ IF r.raised
               THEN pc' = "crashed" /\ crash' = [line |-> 134, error |-> "ValueError"]
               ELSE pc' = "lstm_done" /\ crash' = crash
  /\ UNCHANGED <<calls, client, arima, data, metrics>>

\* data.index[-len(lstm_predictions):] (app.py lines 141 and 150).
lstm_dates(table, predictions) == LastK([i \in 1..table.rows |-> i], Len(predictions))

\* app.py lines 136-153: the prediction plot and table pair the dates with
\* the predictions; arrays of different length raise ValueError.
ShowLstm ==
  /\ client = "dashboard"
  /\ pc = "lstm_done"
  /\ IF Len(lstm_dates(Only(data), ret.values)) = Len(ret.values)
       THEN pc' = "done" /\ crash' = crash
       ELSE pc' = "crashed" /\ crash' = [line |-> 141, error |-> "ValueError"]
  /\ UNCHANGED <<calls, client, arima, lstm, ret, data, metrics>>

\* Streamlit runs the script again from the top on the next interaction.
Rerun ==
  /\ client = "dashboard"
  /\ pc \in {"done", "crashed"}
  /\ pc' = "start"
  /\ data' = None
  /\ metrics' = {}
  /\ crash' = NoCrash
  /\ ret' = NoRet
  /\ UNCHANGED <<calls, client, arima, lstm>>

Next ==
  \/ \E d \in Series : \E env \in FitEnvs(ArimaEnvs(d)) : ArimaFit(d, env)
  \/ \E d \in Series : \E env \in ArimaEnvs(d) : ArimaForecast(d, env)
  \/ \E d \in Series : \E env \in ArimaEnvs(d) : ArimaConfidence(d, env)
  \/ ArimaSummary
  \/ \E d \in Series : \E env \in FitEnvs(LstmEnvs(lstm, d)) : LstmFit(d, env)
  \/ \E d \in Series : \E env \in LstmEnvs(lstm, d) : LstmForecast(d, env)
  \/ \E d \in Series : \E k \in {0, 1, MaxFutureSteps} : \E env \in LstmEnvs(lstm, d) :
       LstmPredictFuture(d, k, env)
  \/ LstmSummary
  \/ \E t \in MetricTables : \E computes \in BOOLEAN : CalcMetrics(t, computes)
  \/ \E dl \in Downloads : Fetch(dl)
  \/ \E computes \in BOOLEAN : ShowMetrics(computes)
  \/ PlotClose
  \/ RunArima
  \/ RunLstm
  \/ ShowLstm
  \/ Rerun

Spec == Init /\ [][Next]_vars

\* ------------------------------------ one program holding both forecasters
\* A caller that owns one ARIMAForecaster and one LSTMForecaster, both with
\* the default configuration, and calls forecast on either in any order
\* (the dashboard calls one after the other, app.py lines 101-102, 133-134).
InitBoth ==
  /\ client = "both"
  /\ arima = ARIMA_init(DefaultOrder, DefaultForecastSteps)
  /\ lstm = LSTM_init(DefaultTimeSteps)
  /\ ret = NoRet
  /\ pc = "start"
  /\ data = None
  /\ metrics = {}
  /\ crash = NoCrash
  /\ calls = NoCalls

\* The series such a caller passes: the empty one, one no longer than the
\* window, and the longest ones of two shapes.
BothSeries ==
  {s \in Series : \/ Len(s) = 0
                   \/ (Len(s) = MaxLen /\ \E i \in 1..Len(s) : s[i] # 2)
                   \/ (Len(s) = DefaultTimeSteps /\ s[1] = 1)}

NextBoth ==
  \/ \E d \in BothSeries : \E env \in ArimaEnvs(d) : ArimaForecast(d, env)
  \/ \E d \in BothSeries : \E env \in LstmEnvs(lstm, d) : LstmForecast(d, env)

SpecBoth == InitBoth /\ [][NextBoth]_vars

\* --------------------------------------- the helper functions called alone
\* The forecast arrays handed to the accuracy helpers together with the
\* series d: a series of the input domain as long as d with every value off
\* by the same error e; d itself one value shorter or one value longer; an
\* array holding NaN.
ForecastArrays(d) ==
  {[i \in 1..Len(s) |-> F(s[i] + e)] :
      s \in {t \in Series : Len(t) = Len(d)}, e \in 0..MaxErr}
    \cup {[i \in 1..(Len(d) - 1) |-> F(d[i])],
          [i \in 1..(Len(d) + 1) |-> IF i <= Len(d) THEN F(d[i]) ELSE F(0)],
          <<NaN>>}

InitUnit ==
  /\ client = "unit"
  /\ arima = ARIMA_init(DefaultOrder, DefaultForecastSteps)
  /\ lstm = LSTM_init(DefaultTimeSteps)
  /\ ret = NoRet
  /\ pc = "start"
  /\ data = None
  /\ metrics = {}
  /\ crash = NoCrash
  /\ calls = NoCalls

\* ARIMAForecaster._calculate_accuracy(data, forecast); the record keeps the
\* helper's local `mape` (line 113) next to what it returned.
ArimaAccuracy(d, forecast) ==
  /\ client = "unit"
  /\ LET sl == ARIMA_accuracy_slices(d, forecast) IN
     ret' = [NoRet EXCEPT !.cls = "arima", !.op = "_calculate_accuracy",
                          !.data = d, !.values = forecast,
                          !.mape = mean_absolute_percentage_error(
                                     sl.actual_values, sl.forecast_subset),
                          !.accuracy = ARIMA_calculate_accuracy(d, forecast)]
  /\ UNCHANGED <<calls, client, arima, lstm, pc, data, metrics, crash>>

\* LSTMForecaster._calculate_accuracy(data, predictions), with its local
\* `mape` (line 168).
LstmAccuracy(d, predictions) ==
  /\ client = "unit"
  /\ ret' = [NoRet EXCEPT !.cls = "lstm", !.op = "_calculate_accuracy",
                          !.data = d, !.values = predictions,
                          !.mape = mean_absolute_percentage_error(
                                     LastK(d, Len(predictions)), predictions),
                          !.accuracy = LSTM_calculate_accuracy(d, predictions)]
  /\ UNCHANGED <<calls, client, arima, lstm, pc, data, metrics, crash>>

NextUnit ==
  \/ \E d \in Series : \E f \in ForecastArrays(d) : ArimaAccuracy(d, f)
  \/ \E d \in Series : \E f \in ForecastArrays(d) : LstmAccuracy(d, f)

SpecUnit == InitUnit /\ [][NextUnit]_vars

\* ------------------- forecast calls of two threads on one LSTMForecaster
\* LSTMForecaster takes no lock, so the statements of two forecast calls on
\* one instance run in any order.  A step is one statement that reads or
\* writes self.scaler or self.model; what a call keeps in local variables
\* (its series, its scaled windows, its predictions) is its own.
\*   line 89     scaled_data = self.scaler.fit_transform(...)    ForecastFitScale
\*   line 99     self.model = self._build_model(...)             ForecastFitBuild
\*   line 100    self.model.fit(x_data, y_data, ...)             ForecastFitTrain
\*   line 127    scaled_data = self.scaler.fit_transform(...)    ForecastScale
\*   line 136    predictions = self.model.predict(x_data)        ForecastPredict
\*   lines 139-145  self.scaler.inverse_transform, accuracy      ForecastInverse
\* With client = "sequential" a call starts only when no other call is in
\* progress; with client = "threads" calls start at any time.
Threads == {1, 2}

IdleCall ==
  [pc |-> "idle", data |-> <<>>, env |-> NoEnv, fit_ok |-> FALSE,
   raised |-> FALSE, preds |-> <<>>, values |-> <<>>, accuracy |-> ZeroAcc,
   net |-> None, inv |-> None]

\* The training examples a call builds from its own series (lines 92, 130):
\* its local x_data, y_data.
OwnDataset(c) == LSTM_create_lstm_dataset(lstm, FitTransform(c.data).scaled)

\* model.fit on network `net`: the weights now reproduce the targets of ds;
\* `warm` tells that the network had been trained before, so its weights
\* also derive from the earlier training.
TrainOn(net, ds, env) ==
  [trained |-> TRUE, x_data |-> ds.x_data, y_data |-> ds.y_data,
   err |-> env.err, finite |-> env.finite, warm |-> net.trained]

\* The call leaves through forecast's except branch (lines 147-150).
CallExcept(c, fit_ok) ==
  LET r == LSTM_forecast_except(lstm, fit_ok, LSTM_fallback_len(lstm, c.data))
  IN [c EXCEPT !.pc = "returned", !.fit_ok = fit_ok, !.raised = r.raised,
               !.values = r.values, !.accuracy = r.accuracy]

InitThreads ==
  /\ client \in {"threads", "sequential"}
  /\ arima = ARIMA_init(DefaultOrder, DefaultForecastSteps)
  /\ lstm = LSTM_init(DefaultTimeSteps)
  /\ ret = NoRet
  /\ pc = "start"
  /\ data = None
  /\ metrics = {}
  /\ crash = NoCrash
  /\ calls = [t \in Threads |-> IdleCall]

\* Thread t calls forecast(d).
ForecastStart(t, d, env) ==
  /\ client \in {"threads", "sequential"}
  /\ calls[t].pc = "idle"
  /\ (client = "sequential")
       => \A u \in Threads \ {t} : calls[u].pc \in {"idle", "returned"}
  /\ calls' = [calls EXCEPT ![t] = [IdleCall EXCEPT !.pc = "called",
                                                   !.data = d, !.env = env]]
  /\ UNCHANGED <<client, arima, lstm, ret, pc, data, metrics, crash>>

\* fit, lines 89-95: the scaler is refitted; no example means fit fails.
ForecastFitScale(t) ==
  /\ client \in {"threads", "sequential"}
  /\ calls[t].pc = "called"
  /\ LET c  == calls[t]
         ft == FitTransform(c.data)
     IN /\ lstm' = [lstm EXCEPT !.scaler = ft.scaler]
        /\ calls' = [calls EXCEPT ![t] =
                       IF ft.raises \/ Len(OwnDataset(c).x_data) = 0
                         THEN CallExcept(c, FALSE)
                         ELSE [c EXCEPT !.pc = "scaled"]]
  /\ UNCHANGED <<client, arima, ret, pc, data, metrics, crash>>

\* fit, line 99.
\* Variant: a network the instance already holds is kept, not rebuilt.
ForecastFitBuild_reuse(t) ==
  /\ client \in {"threads", "sequential"}
  /\ calls[t].pc = "scaled"
  /\ lstm' = IF lstm.model = None
               THEN [lstm EXCEPT !.model = Some(LSTM_build_model)]
               ELSE lstm
  /\ calls' = [calls EXCEPT ![t].pc = "built"]
  /\ UNCHANGED <<client, arima, ret, pc, data, metrics, crash>>

ForecastFitBuild(t) ==
  /\ client \in {"threads", "sequential"}
  /\ calls[t].pc = "scaled"
  /\ lstm' = [lstm EXCEPT !.model = Some(LSTM_build_model)]
  /\ calls' = [calls EXCEPT ![t].pc = "built"]
  /\ UNCHANGED <<client, arima, ret, pc, data, metrics, crash>>

\* fit, line 100: trains the network self.model refers to at that moment.
ForecastFitTrain(t) ==
  /\ client \in {"threads", "sequential"}
  /\ calls[t].pc = "built"
  /\ LET c == calls[t] IN
       IF c.env.fit = "train_raises"
         THEN /\ calls' = [calls EXCEPT ![t] = CallExcept(c, FALSE)]
              /\ lstm' = lstm
         ELSE /\ lstm' = [lstm EXCEPT !.model =
                             Some(TrainOn(Only(lstm.model), OwnDataset(c), c.env))]
              /\ calls' = [calls EXCEPT ![t].pc = "trained", ![t].fit_ok = TRUE]
  /\ UNCHANGED <<client, arima, ret, pc, data, metrics, crash>>

\* forecast, lines 127-133: the scaler is refitted to the call's series.
ForecastScale(t) ==
  /\ client \in {"threads", "sequential"}
  /\ calls[t].pc = "trained"
  /\ lstm' = [lstm EXCEPT !.scaler = FitTransform(calls[t].data).scaler]
  /\ calls' = [calls EXCEPT ![t].pc = "rescaled"]
  /\ UNCHANGED <<client, arima, ret, pc, data, metrics, crash>>

\* forecast, line 136: the network self.model refers to at that moment
\* predicts from the call's own windows; c.net keeps which network it was.
ForecastPredict(t) ==
  /\ client \in {"threads", "sequential"}
  /\ calls[t].pc = "rescaled"
  /\ LET c   == calls[t]
         net == Only(lstm.model)
         x   == OwnDataset(c).x_data
     IN calls' = [calls EXCEPT ![t] =
                    IF c.env.predict_raises
                      THEN CallExcept(c, TRUE)
                      ELSE [c EXCEPT !.pc = "predicted", !.net = Some(net),
                                     !.preds = [j \in 1..Len(x) |-> Predict(net, x[j])]]]
  /\ UNCHANGED <<client, arima, lstm, ret, pc, data, metrics, crash>>

\* forecast, lines 139-145: the scaler as it is at that moment inverts the
\* predictions (an unfitted scaler raises NotFittedError); c.inv keeps which
\* range it had.  With a range that is not the call's own the inverse is
\* rounded down to a whole price.
ForecastInverse(t) ==
  /\ client \in {"threads", "sequential"}
  /\ calls[t].pc = "predicted"
  /\ LET c == calls[t] IN
       calls' = [calls EXCEPT ![t] =
                   IF lstm.scaler = None
                     THEN CallExcept(c, TRUE)
                     ELSE LET lstm_predictions ==
                                InverseTransform(Only(lstm.scaler), c.preds)
                          IN [c EXCEPT !.pc = "returned", !.inv = lstm.scaler,
                                       !.values = lstm_predictions,
                                       !.accuracy = LSTM_calculate_accuracy(
                                                      c.data, lstm_predictions)]]
  /\ UNCHANGED <<client, arima, lstm, ret, pc, data, metrics, crash>>

NextThreads ==
  \/ \E t \in Threads : \E d \in BothSeries : \E env \in LstmEnvs(lstm, d) :
       ForecastStart(t, d, env)
  \/ \E t \in Threads : ForecastFitScale(t)
  \/ \E t \in Threads : ForecastFitBuild(t)
  \/ \E t \in Threads : ForecastFitTrain(t)
  \/ \E t \in Threads : ForecastScale(t)
  \/ \E t \in Threads : ForecastPredict(t)
  \/ \E t \in Threads : ForecastInverse(t)

SpecThreads == InitThreads /\ [][NextThreads]_vars

\* =============================================================== claims
IsZeroFilled(values) == \A i \in 1..Len(values) : values[i] = F(0)
IsFinite(values) == \A i \in 1..Len(values) : ~IsNaN(values[i])

\* The last call was forecast on an instance of class cls.
ForecastCall(cls) == ret.cls = cls /\ ret.op = "forecast"

\* An accuracy fraction lies in [0, 100].
InPercentRange(a) == a.den > 0 /\ 0 <= a.num /\ a.num <= 100 * a.den

\* The accuracy computation of a returned forecast failed: the percentage
\* error raised, or a zero actual value made it degenerate.
DegenerateAccuracy ==
  LET mape == IF ret.cls = "arima"
                THEN mean_absolute_percentage_error(
                       LastK(ret.data, AccuracyTail),
                       FirstK(ret.values, Len(LastK(ret.data, AccuracyTail))))
                ELSE mean_absolute_percentage_error(
                       LastK(ret.data, Len(ret.values)), ret.values)
  IN mape.raises \/ mape.huge

\* C1: LSTMForecaster.forecast on a series no longer than the window
\* (n <= time_steps) returns the zero-fallback (zero-filled values, accuracy
\* 0) and never raises to the caller.
C1_ShortSeriesZeroFallback ==
  (ForecastCall("lstm") /\ Len(ret.data) <= lstm.time_steps)
    => /\ ~ret.raised
       /\ IsZeroFilled(ret.values)
       /\ ret.accuracy = ZeroAcc

\* C2: ARIMAForecaster.forecast never raises; whenever fit returns False or
\* the forecasting step raises it returns exactly forecast_steps zeros and
\* accuracy 0.
C2_ArimaFallback ==
  ForecastCall("arima")
    => /\ ~ret.raised
       /\ (~ret.fit_ok \/ ret.env.forecast_raises)
            => /\ Len(ret.values) = arima.forecast_steps
               /\ IsZeroFilled(ret.values)
               /\ ret.accuracy = ZeroAcc

\* C2 witness: a forecast whose fit failed on an instance that an earlier
\* call had fitted, returning a non-empty fallback.
C2_Witness ==
  /\ client = "arima"
  /\ ForecastCall("arima")
  /\ ~ret.fit_ok
  /\ arima.model_fit # None
  /\ Len(ret.values) >= 1

\* C3: every failure kind (fit failure, a raising forecast step, a failure
\* inside the accuracy computation) makes a returning forecast return the
\* uniform fallback: zero-filled values together with accuracy 0.  (Stated
\* for returns whose values are finite; non-finite values are C4's subject.)
C3_FailureGivesUniformFallback ==
  ((ForecastCall("arima") \/ ForecastCall("lstm")) /\ ~ret.raised
     /\ IsFinite(ret.values)
     /\ (~ret.fit_ok \/ DegenerateAccuracy))
    => (IsZeroFilled(ret.values) /\ ret.accuracy = ZeroAcc)

\* C4: the values forecast returns never contain NaN or Infinity.
C4_ValuesFinite ==
  ((ForecastCall("arima") \/ ForecastCall("lstm")) /\ ~ret.raised)
    => IsFinite(ret.values)

\* C5: when fitting succeeds the returned values have the documented length:
\* forecast_steps for the ARIMA forecaster, n - time_steps for the LSTM one.
C5_DocumentedLength ==
  /\ (ForecastCall("arima") /\ ret.fit_ok)
       => (~ret.raised /\ Len(ret.values) = arima.forecast_steps)
  /\ (ForecastCall("lstm") /\ ret.fit_ok)
       => /\ Len(ret.data) > lstm.time_steps
          /\ ~ret.raised
          /\ Len(ret.values) = Len(ret.data) - lstm.time_steps

\* C5 witness: an LSTM forecast that fitted and predicted two windows.
C5_Witness ==
  /\ ForecastCall("lstm")
  /\ ret.fit_ok
  /\ ~ret.env.predict_raises
  /\ Len(ret.values) = 2
  /\ ~IsZeroFilled(ret.values)

\* C6: every return of forecast, success or fallback, carries an accuracy
\* in the closed range [0, 100].
C6_AccuracyInRange ==
  ((ForecastCall("arima") \/ ForecastCall("lstm")) /\ ~ret.raised)
    => InPercentRange(ret.accuracy)

\* C6 witness: a measured accuracy strictly between 0 and 100.
C6_Witness ==
  /\ ForecastCall("arima")
  /\ ret.fit_ok
  /\ 0 < ret.accuracy.num
  /\ ret.accuracy.num < 100 * ret.accuracy.den

\* What the last forecast call gives on a newly constructed instance of the
\* same configuration, under the same library outcomes.
FreshForecast ==
  IF ret.cls = "arima"
    THEN ARIMA_forecast(ARIMA_init(arima.order, arima.forecast_steps),
                        ret.data, ret.env)
    ELSE LSTM_forecast(LSTM_init(lstm.time_steps), ret.data, ret.env)

\* C7: forecast(B) after any earlier calls on the instance returns what
\* forecast(B) returns on a fresh instance of the same configuration.
C7_NoLeakBetweenCalls ==
  (ForecastCall("arima") \/ ForecastCall("lstm"))
    => /\ ret.raised = FreshForecast.raised
       /\ ret.values = FreshForecast.values
       /\ ret.accuracy = FreshForecast.accuracy

\* C7 witness: a forecast on series B whose fit failed while the instance
\* still holds the model fitted to another series A.
C7_Witness ==
  /\ client = "arima"
  /\ ForecastCall("arima")
  /\ ret.env.fit = "fit_raises"
  /\ arima.model_fit # None
  /\ Only(arima.model_fit).endog # ret.data
  /\ Only(arima.model_fit).phi = 1

\* C8: after a fit or forecast call of the ARIMA forecaster whose fitting
\* fails the instance holds no fitted model, and get_model_summary reports
\* "Model not fitted yet".
C8_FailedFitLeavesUnfit ==
  (ret.cls = "arima" /\ ret.op \in {"fit", "forecast"} /\ ~ret.fit_ok)
    => /\ arima.model_fit = None
       /\ ARIMA_get_model_summary(arima).text = NotFitted

\* C9: predict_future returns exactly future_steps values, on the success
\* path and on the failure path, and does not raise.
C9_PredictFutureLength ==
  (ret.cls = "lstm" /\ ret.op = "predict_future")
    => (~ret.raised /\ Len(ret.values) = ret.steps)

\* C9 witness: a successful rollout of the largest requested horizon.
C9_Witness ==
  /\ ret.cls = "lstm"
  /\ ret.op = "predict_future"
  /\ ret.fit_ok
  /\ ~ret.env.predict_raises
  /\ ret.steps = MaxFutureSteps
  /\ Len(ret.values) = MaxFutureSteps
  /\ ~IsZeroFilled(ret.values)

\* C10: in a dashboard run whose fetch gave None or a table without a Close
\* column, no forecaster is invoked and no step reads the Close column.
C10_MissingCloseHandledUpstream ==
  (client = "dashboard" /\ pc # "start" /\ ~HasClose(data))
    => /\ ret = NoRet
       /\ ~(pc = "crashed" /\ crash.line \in CloseReadLines)

AccuracyCall == ret.op = "_calculate_accuracy"

\* The two slices that call compared.
ComparedSlices ==
  IF ret.cls = "arima"
    THEN ARIMA_accuracy_slices(ret.data, ret.values)
    ELSE [actual_values   |-> LastK(ret.data, Len(ret.values)),
          forecast_subset |-> ret.values]

SlicesEqual ==
  /\ Len(ComparedSlices.actual_values) = Len(ComparedSlices.forecast_subset)
  /\ \A i \in 1..Len(ComparedSlices.actual_values) :
       ComparedSlices.forecast_subset[i] = F(ComparedSlices.actual_values[i])

\* m1 <= m2 for two percentage errors; a "huge" one exceeds every fraction.
MapeLeq(m1, m2) ==
  m2.huge \/ (~m1.huge /\ m1.num * m2.den <= m2.num * m1.den)

AccLeq(a1, a2) == a1.num * a2.den <= a2.num * a1.den

\* The score of the last call, when its MAPE could be computed: exactly 100
\* for equal slices, 0 for a MAPE of 1 or more, never negative.
ScoreOfCall ==
  (AccuracyCall /\ ~ret.mape.raises)
    => /\ SlicesEqual => (ret.mape.num = 0 /\ ~ret.mape.huge
                            /\ ret.accuracy.num = 100 * ret.accuracy.den)
       /\ MapeLeq([huge |-> FALSE, num |-> 1, den |-> 1], ret.mape)
            => (ret.accuracy.num = 0)
       /\ ret.accuracy.num >= 0 /\ ret.accuracy.den > 0

\* C12: the accuracy computed from an actual and a forecast slice is exactly
\* 100 when the slices are equal, is 0 for every MAPE >= 1 and never
\* negative, and does not increase when the MAPE grows from one call to the
\* next.
C12_AccuracyOfMape ==
  [][ /\ ScoreOfCall'
      /\ (AccuracyCall /\ AccuracyCall' /\ ~ret.mape.raises
            /\ ~ret'.mape.raises /\ MapeLeq(ret.mape, ret'.mape))
           => AccLeq(ret'.accuracy, ret.accuracy) ]_vars

\* C12 witness: a finite MAPE above 1 scored as 0.
C12_Witness ==
  /\ AccuracyCall
  /\ ~ret.mape.raises
  /\ ~ret.mape.huge
  /\ ret.mape.num > ret.mape.den
  /\ ret.accuracy = ZeroAcc

\* calculate_stock_metrics has been called: directly, or by the dashboard's
\* guarded block (app.py line 57).
MetricsCalled ==
  \/ ret.op = "calculate_stock_metrics"
  \/ (client = "dashboard" /\ pc # "start" /\ pc # "fetched" /\ HasClose(data))

\* C13: calculate_stock_metrics does not raise and returns either the
\* complete set of nine metrics or the empty dictionary, never a partly
\* filled one.
C13_MetricsAllOrNothing ==
  /\ Cardinality(MetricKeys) = 9
  /\ metrics = {} \/ metrics = MetricKeys
  /\ MetricsCalled
       => /\ (client = "metrics") => (crash = NoCrash)
          /\ (metrics = MetricKeys)
               => {"Close", "Volume"} \subseteq Only(data).columns

\* C13 witness: a direct call on a table with a Close column and no Volume
\* column, where the failing step comes after seven metrics were computed.
C13_Witness ==
  /\ ret.op = "calculate_stock_metrics"
  /\ Only(data).columns = {"Close"}
  /\ Only(data).rows >= 1
  /\ metrics = {}

\* The last call was an LSTMForecaster call that fits (fit, forecast or
\* predict_future).
LstmFitCall == ret.cls = "lstm" /\ ret.op \in {"fit", "forecast", "predict_future"}

\* The scaled series of the last call, and element i (0-based) of it.
ScaledOfCall == FitTransform(ret.data).scaled
ScaledAt(i) == ScaledOfCall[i + 1]

\* The examples built from the last call's scaled series.
DatasetOfCall == LSTM_create_lstm_dataset(lstm, ScaledOfCall)

\* C14: for a scaled series of length n and window w, _create_lstm_dataset
\* builds exactly max(0, n - w) examples, one per index i in [w, n) in
\* increasing order; example i has the w scaled values at [i - w, i) as
\* input and the scaled value at i as target; with n - w <= 0 fitting fails.
C14_DatasetWindows ==
  LstmFitCall
    => LET n == Len(ret.data)
           w == lstm.time_steps
           m == IF n - w > 0 THEN n - w ELSE 0
       IN /\ Len(DatasetOfCall.x_data) = m
          /\ Len(DatasetOfCall.y_data) = m
          /\ \A i \in w..(n - 1) :
               /\ Len(DatasetOfCall.x_data[i - w + 1]) = w
               /\ \A t \in 0..(w - 1) :
                    DatasetOfCall.x_data[i - w + 1][t + 1] = ScaledAt(i - w + t)
               /\ DatasetOfCall.y_data[i - w + 1] = ScaledAt(i)
          /\ (n - w <= 0) => ~ret.fit_ok
          /\ ret.fit_ok
               => /\ Only(lstm.model).x_data = DatasetOfCall.x_data
                  /\ Only(lstm.model).y_data = DatasetOfCall.y_data

\* C14 witness: a fit that trained on two examples of a series whose values
\* all differ.
C14_Witness ==
  /\ LstmFitCall
  /\ ret.fit_ok
  /\ Len(ret.data) - lstm.time_steps = 2
  /\ \A i, j \in 1..Len(ret.data) : i # j => ret.data[i] # ret.data[j]
  /\ Len(Only(lstm.model).y_data) = 2

\* The last call was an LSTMForecaster call that scales: forecast or
\* predict_future on a non-empty series.
LstmScalingCall ==
  /\ ret.cls = "lstm"
  /\ ret.op \in {"forecast", "predict_future"}
  /\ Len(ret.data) >= 1

\* C15: whenever LSTM forecast or predict_future scales its input or
\* inverse-scales its predictions, the scaler's fitted range is the minimum
\* and maximum of the series passed to that same call.
C15_ScalerOfThisCall ==
  LstmScalingCall
    => /\ lstm.scaler # None
       /\ LET sc == Only(lstm.scaler)
              n  == Len(ret.data)
          IN /\ \E i \in 1..n : ret.data[i] = sc.data_min
             /\ \E i \in 1..n : ret.data[i] = sc.data_max
             /\ \A i \in 1..n : sc.data_min <= ret.data[i] /\ ret.data[i] <= sc.data_max
             /\ \A i \in 1..n :
                  LET x == Val(Transform(sc, ret.data)[i])
                  IN 0 <= x.num /\ x.num <= x.den

\* C15 witness: a predict_future call that scaled a series ending in a new
\* maximum and returned inverse-scaled predictions.
C15_Witness ==
  /\ ret.cls = "lstm"
  /\ ret.op = "predict_future"
  /\ ret.fit_ok
  /\ ~ret.env.predict_raises
  /\ Len(ret.values) >= 1
  /\ IsFinite(ret.values)
  /\ \A i \in 1..(Len(ret.data) - 1) : ret.data[i] < ret.data[Len(ret.data)]
  /\ Only(lstm.scaler).data_max = ret.data[Len(ret.data)]

\* C16: the trained and fitted state of an LSTM instance is re-initialised
\* at the start of every forecast call: after a forecast call, failed or
\* not, a trained network held by the instance was trained on that call's
\* series, and a fitted scaler was fitted to that call's series.  (Stated
\* for the forecast calls that return.)
C16_StateOfThisCallOnly ==
  (ForecastCall("lstm") /\ ~ret.raised)
    => /\ (lstm.model # None /\ Only(lstm.model).trained)
            => /\ Only(lstm.model).x_data = DatasetOfCall.x_data
               /\ Only(lstm.model).y_data = DatasetOfCall.y_data
       /\ (lstm.scaler # None) => (lstm.scaler = FitTransform(ret.data).scaler)

\* The last call was a predict_future that ran its loop.
RolloutCall ==
  /\ ret.cls = "lstm"
  /\ ret.op = "predict_future"
  /\ ret.fit_ok
  /\ ~ret.env.predict_raises
  /\ ret.steps >= 1

\* C17: predict_future seeds its rolling window with the last w scaled
\* values; the window keeps length w; the input of iteration k (0-based,
\* k <= w) is the last w - k seed values followed by the first k
\* predictions in order; inverse scaling is applied once, to the
\* predictions collected by the loop.
C17_RollingWindow ==
  RolloutCall
    => LET w    == lstm.time_steps
           n    == Len(ret.data)
           net  == Only(lstm.model)
           seed == LSTM_last_sequence_scaled(lstm, ret.data)
           P    == Rollout(net, seed, ret.steps)
           X    == RolloutInputs(net, seed, ret.steps)
       IN /\ Len(seed) = w
          /\ \A t \in 0..(w - 1) : seed[t + 1] = ScaledAt(n - w + t)
          /\ Len(X) = ret.steps
          /\ \A k \in 0..(ret.steps - 1) :
               /\ Len(X[k + 1]) = w
               /\ (k <= w)
                    => X[k + 1] = SubSeq(seed, k + 1, w) \o SubSeq(P, 1, k)
          /\ ret.values = InverseTransform(Only(lstm.scaler), P)

\* C17 witness: a rollout of at least two iterations over a window of at
\* least two values, so the second input mixes seed values and a prediction.
C17_Witness ==
  /\ RolloutCall
  /\ ret.steps >= 2
  /\ lstm.time_steps >= 2
  /\ IsFinite(ret.values)
  /\ ret.values[1] # ret.values[2]

\* C18: for every n >= 1 and every configured forecast_steps, the ARIMA
\* accuracy is computed on two slices of equal length min(30, n), the last
\* min(30, n) observed values and the first min(30, n) forecast values, and
\* is max(0, 100 - 100 * MAPE) of them.  (Stated for a positive
\* forecast_steps and finite forecast values.)
C18_ArimaEqualSlices ==
  (/\ ForecastCall("arima")
   /\ ret.fit_ok
   /\ ~ret.env.forecast_raises
   /\ IsFinite(ret.values)
   /\ arima.forecast_steps >= 1
   /\ Len(ret.data) >= 1)
    => LET m  == Min2(AccuracyTail, Len(ret.data))
           sl == ARIMA_accuracy_slices(ret.data, ret.values)
           mape == mean_absolute_percentage_error(sl.actual_values,
                                                  sl.forecast_subset)
       IN /\ Len(sl.actual_values) = m
          /\ Len(sl.forecast_subset) = m
          /\ ~mape.raises
          /\ ret.accuracy = AccuracyOf(mape)

\* An LSTM forecast that returned predictions (not the fallback).
LstmPredicted ==
  /\ ForecastCall("lstm")
  /\ ret.fit_ok
  /\ ~ret.env.predict_raises
  /\ ~ret.raised

\* Prediction j (0-based) is compared with the observed value at index
\* w + j: the percentage error of those pairs.
AlignedMape ==
  LET w == lstm.time_steps
      actual == [j \in 1..(Len(ret.data) - w) |-> ret.data[w + j]]
  IN mean_absolute_percentage_error(actual, ret.values)

\* C19: for every n > w the LSTM accuracy compares prediction j
\* (0 <= j < n - w) with the observed value at index w + j: the actual slice
\* is the last len(predictions) values and has the predictions' length.
C19_LstmAlignedSlices ==
  LstmPredicted
    => /\ Len(ret.data) > lstm.time_steps
       /\ Len(ret.values) = Len(ret.data) - lstm.time_steps
       /\ Len(LastK(ret.data, Len(ret.values))) = Len(ret.values)
       /\ \A j \in 0..(Len(ret.values) - 1) :
            LastK(ret.data, Len(ret.values))[j + 1] = ret.data[lstm.time_steps + j + 1]
       /\ ret.accuracy = IF AlignedMape.raises THEN ZeroAcc
                         ELSE AccuracyOf(AlignedMape)

\* C19 witness: predictions for a series whose values all differ, scored
\* above 0, so pairing them with other observations would change the score.
C19_Witness ==
  /\ LstmPredicted
  /\ Len(ret.values) >= 2
  /\ \A i, j \in 1..Len(ret.data) : i # j => ret.data[i] # ret.data[j]
  /\ ret.accuracy.num > 0

\* The configuration of the two instances.
ArimaConfig == <<arima.order, arima.forecast_steps>>
LstmConfig == <<lstm.time_steps, lstm.units, lstm.epochs, lstm.batch_size>>

\* The step is a call of a forecaster operation.
ForecasterStep ==
  ret'.cls \in {"arima", "lstm"}
    /\ ret'.op \in {"fit", "forecast", "predict_future",
                    "get_forecast_confidence", "get_model_summary"}

\* C20: no operation of either forecaster (fit, forecast, predict_future,
\* get_forecast_confidence, get_model_summary) changes the instance's
\* configuration or the series its caller passed; of the instance only the
\* model, the fitted model and the scaler may change, and get_model_summary
\* changes nothing.
C20_Frame ==
  [][ ForecasterStep
        => /\ ArimaConfig' = ArimaConfig
           /\ LstmConfig' = LstmConfig
           /\ DOMAIN arima' = DOMAIN arima
           /\ DOMAIN lstm' = DOMAIN lstm
           /\ data' = data
           /\ (ret'.op = "get_model_summary") => (arima' = arima /\ lstm' = lstm)
           /\ (ret'.cls = "arima") => (lstm' = lstm)
           /\ (ret'.cls = "lstm") => (arima' = arima) ]_vars

\* C20 witness: a dashboard run in which both forecasters have fitted on
\* the fetched Close series, which the table still holds as fetched.
C20_Witness ==
  /\ client = "dashboard"
  /\ pc = "lstm_done"
  /\ ret.fit_ok
  /\ arima.model_fit # None
  /\ lstm.model # None
  /\ Only(data).close = ret.data
  /\ Only(arima.model_fit).endog = Only(data).close

\* The network that predicted for call c was built and trained by c alone,
\* on c's own examples.
OwnNet(c) ==
  LET net == Only(c.net) IN
    /\ net.trained
    /\ ~net.warm
    /\ net.x_data = OwnDataset(c).x_data
    /\ net.y_data = OwnDataset(c).y_data

\* The range that inverse-scaled c's predictions is that of c's series.
OwnRange(c) == c.inv = FitTransform(c.data).scaler

\* C21 (sequential part): when the forecast calls on one LSTM instance run
\* one after the other, every returned call was predicted by the network
\* trained on its own series and inverse-scaled with its own series'
\* range, and returns what forecast returns on an instance used alone.
C21_SequentialUnmixed ==
  (client = "sequential")
    => \A t \in Threads :
         LET c == calls[t]
             alone == LSTM_forecast(LSTM_init(lstm.time_steps), c.data, c.env)
         IN (c.pc = "returned")
              => /\ (c.net # None) => OwnNet(c)
                 /\ (c.inv # None) => OwnRange(c)
                 /\ c.raised = alone.raised
                 /\ c.values = alone.values
                 /\ c.accuracy = alone.accuracy

\* C21 (interleaved part), the state the claim says can be reached: two
\* interleaved calls on different series have returned, and the predictions
\* one of them returned for its series A were produced by the network
\* trained on the other's series B alone and inverse-scaled with B's range.
C21_Witness ==
  /\ client = "threads"
  /\ \E t \in Threads : \E u \in Threads \ {t} :
       LET a == calls[t]
           b == calls[u]
       IN /\ a.pc = "returned" /\ b.pc = "returned"
          /\ a.data # b.data
          /\ a.net # None /\ a.inv # None
          /\ Len(a.values) >= 1
          /\ IsFinite(a.values)
          /\ Only(a.net).trained
          /\ ~Only(a.net).warm
          /\ Only(a.net).x_data = OwnDataset(b).x_data
          /\ Only(a.net).x_data # OwnDataset(a).x_data
          /\ a.inv = FitTransform(b.data).scaler
          /\ ~OwnRange(a)

\* The last call was get_forecast_confidence; ret.values holds the lower
\* bounds and ret.upper the upper bounds.
ConfidenceCall == ret.cls = "arima" /\ ret.op = "get_forecast_confidence"

\* The call took the success path: the fit and the forecast went through.
ConfidenceSucceeded == ret.fit_ok /\ ~ret.env.forecast_raises

\* lower <= upper for two bounds around one centre: both are numbers, and
\* the lower one has the smaller multiple of the (non-negative) deviation.
BoundLeq(lo, up) ==
  /\ ~IsNaN(lo) /\ ~IsNaN(up)
  /\ Val(lo).centre = Val(up).centre
  /\ Val(lo).std = Val(up).std
  /\ Val(lo).z <= Val(up).z

C23_DatesMatchPredictions ==
  /\ (client = "dashboard" /\ pc = "lstm_done")
       => Len(lstm_dates(Only(data), ret.values)) = Len(ret.values)
  /\ (client = "dashboard" /\ pc = "crashed") => (crash.line # 141)

\* C24: in the dashboard, every metric key the orchestrator reads (Highest
\* Price, Lowest Price, Average Price, Best Time to Sell, Best Time to Buy)
\* is present in the result of calculate_stock_metrics for every outcome of
\* the computation, its internal failure included, so the reads at lines
\* 60-71 never fail.
C24_DisplayedKeysPresent ==
  (client = "dashboard" /\ MetricsCalled)
    => /\ DisplayedKeys \subseteq metrics
       /\ crash.line # 60

=============================================================================
